---- MODULE Spec2Model ----
(***************************************************************************)
(* Sheet music to lyric slides: the image preparer, the cross-page         *)
(* combiner, the poetic reformatter, the slide segmenter, the text         *)
(* exporter, the pipeline entry point, the command line, the web front-end *)
(* and its Lambda adapter (run_gpt4.py, run_gpt4_cli.py, simple_web.py,    *)
(* lambda_handler.py).                                                     *)
(*                                                                         *)
(* Texts are sequences of one-character strings, so that joining,          *)
(* splitting and stripping are computed, not assumed.  Each component has  *)
(* a specification of its own (SpecImage, SpecCombine, SpecReformat,       *)
(* SpecSlides, SpecWeb, SpecLambda, ...); the variables of the other       *)
(* components stay idle.                                                   *)
(***************************************************************************)
EXTENDS Integers, Sequences, FiniteSets, TLC

VARIABLES
    \* image preparer, one page (extract_lyrics_from_pdf 39-59, _compress_image)
    ipc,            \* position: "render", "check", "compress", "resize", "done"
    dpi,            \* extract_lyrics_from_pdf: dpi
    quality,        \* _compress_image: quality
    img_data,       \* the current encoded buffer
    halfSize,       \* the page: size of its half-resolution JPEG per quality
    candidates,     \* the buffers encoded for the page so far, in order
    \* cross-page combiner and organiser
    cpc,            \* position: "combine", "organize", "done"
    all_page_lyrics,\* extract_lyrics_from_pdf: all_page_lyrics
    combined_lyrics,\* extract_lyrics_from_pdf: combined_lyrics
    organized,      \* self.lyrics_data after _organize_lyrics
    \* poetic reformatter
    rpc,            \* position: "loop", "done", "raised"
    reformat_input, \* _reformat_lyrics_poetically: lyrics_data (the argument)
    reformat_index, \* how many blocks of the argument the loop has consumed
    reformatted_lyrics, \* _reformat_lyrics_poetically: reformatted_lyrics
    reformat_trace, \* per consumed block: what the text capability did
    \* slide segmenter, text exporter
    spc,            \* position: "ready", "exported", "titled", "segmented", "slides", ...
    lyrics_data,    \* self.lyrics_data as the segmenter and exporter read it
    segments,       \* segment_lyrics_for_slides: the value returned
    max_lines,      \* segment_lyrics_for_slides: max_lines_per_slide
    text_file,      \* export_lyrics_to_text: what was written
    prs,            \* create_powerpoint: the slides of prs, in order
    num_slides,     \* create_powerpoint: the value returned
    \* web front-end, command line
    uploads,        \* files in UPLOAD_FOLDER
    outputs,        \* files in OUTPUT_FOLDER
    now,            \* datetime.now(), in seconds
    last,           \* the last request handled, what happened in it, its answer
    downloaded,     \* decks served with status 200 and not regenerated since
    \* one run of extract_lyrics_from_pdf, step by step
    epc,            \* position in the run
    replies,        \* the document: per page, what the vision request does
    page_num,       \* extract_lyrics_from_pdf: page_num (pages done so far)
    outstanding,    \* model requests sent and not yet answered
    run_log,        \* the steps of the run so far, in order
    \* concurrent GET /download/<name> requests for one deck
    downloads       \* per request: its position and its answer

imageVars == <<ipc, dpi, quality, img_data, halfSize, candidates>>
combineVars == <<cpc, all_page_lyrics, combined_lyrics, organized>>
reformatVars == <<rpc, reformat_input, reformat_index, reformatted_lyrics, reformat_trace>>
slideVars == <<spc, lyrics_data, segments, max_lines, text_file, prs, num_slides>>
webVars == <<uploads, outputs, now, last, downloaded>>
extractVars == <<epc, replies, page_num, outstanding, run_log>>
vars == <<imageVars, combineVars, reformatVars, slideVars, webVars, extractVars, downloads>>

\* The idle values of a component that a specification does not run.
IdleImage ==
    /\ ipc = "idle" /\ dpi = 0 /\ quality = 0 /\ img_data = <<>> /\ halfSize = <<>>
    /\ candidates = <<>>
IdleCombine ==
    /\ cpc = "idle" /\ all_page_lyrics = <<>> /\ combined_lyrics = <<>> /\ organized = <<>>
IdleReformat ==
    /\ rpc = "idle" /\ reformat_input = <<>> /\ reformat_index = 0
    /\ reformatted_lyrics = <<>> /\ reformat_trace = <<>>
IdleSlides ==
    /\ spc = "idle" /\ lyrics_data = <<>> /\ segments = <<>> /\ max_lines = 0
    /\ text_file = <<>> /\ prs = <<>> /\ num_slides = 0
IdleWeb ==
    /\ uploads = {} /\ outputs = {} /\ now = 0 /\ last = <<>> /\ downloaded = {}
IdleExtract ==
    /\ epc = "idle" /\ replies = <<>> /\ page_num = 0 /\ outstanding = 0
    /\ run_log = <<>>
IdleDownloads == downloads = <<>>

(***************************************************************************)
(* Image preparer: extract_lyrics_from_pdf lines 39-59 and _compress_image *)
(***************************************************************************)

\* Bound: encoded sizes range over max_size - SizeSpread + 1 .. max_size + SizeSpread.
SizeSpread == 1

max_size == 20 * 1024 * 1024
StartDpi == 200
FloorDpi == 100
DpiStep == 50
StartQuality == 85
FloorQuality == 20
QualityStep == 10
ResizeQuality == 70

Sizes == (max_size - SizeSpread + 1) .. (max_size + SizeSpread)

\* The qualities at which the half-resolution image is considered: the one the
\* code uses, one below it (the lowest level of 20 or more) and one above it.
HalfQualities == {20, 70, 95}

Png(d, s) == [format |-> "PNG", dpi |-> d, quality |-> 0, half |-> FALSE, size |-> s]
Jpeg(q, h, s) == [format |-> "JPEG", dpi |-> FloorDpi, quality |-> q, half |-> h, size |-> s]

\* A size test that turns away a buffer of exactly max_size bytes.
FitsStrict(s) == s < max_size
\* "len(img_data) <= max_size", "len(compressed_data) <= max_size"
Fits(s) == s <= max_size

\* A resize that re-encodes at a higher quality than the code's.
ResizeBufferHigh == Jpeg(95, TRUE, halfSize[95])
\* "img.resize((width // 2, height // 2))" and "img.save(format='JPEG', quality=70)"
ResizeBuffer == Jpeg(ResizeQuality, TRUE, halfSize[ResizeQuality])

InitImage ==
    /\ ipc = "render"
    /\ dpi = StartDpi
    /\ quality = 0
    /\ img_data = <<>>
    /\ halfSize \in [HalfQualities -> Sizes]
    /\ candidates = <<>>
    /\ IdleCombine /\ IdleReformat /\ IdleSlides /\ IdleWeb /\ IdleExtract /\ IdleDownloads

\* One iteration of "while dpi >= 100": render, break when it fits, else dpi -= 50.
Render ==
    /\ ipc = "render"
    /\ dpi >= FloorDpi
    /\ \E s \in Sizes :
        /\ img_data' = Png(dpi, s)
        /\ candidates' = Append(candidates, Png(dpi, s))
        /\ IF Fits(s)
              THEN /\ dpi' = dpi
                   /\ ipc' = "check"
              ELSE /\ dpi' = dpi - DpiStep
                   /\ ipc' = IF dpi - DpiStep >= FloorDpi THEN "render" ELSE "check"
    /\ UNCHANGED <<quality, halfSize, combineVars, reformatVars, slideVars, webVars, extractVars, downloads>>

\* "if len(img_data) > max_size: img_data = self._compress_image(...)"
CheckSize ==
    /\ ipc = "check"
    /\ IF Fits(img_data.size)
          THEN ipc' = "done" /\ quality' = quality
          ELSE ipc' = "compress" /\ quality' = StartQuality
    /\ UNCHANGED <<dpi, img_data, halfSize, candidates,
                   combineVars, reformatVars, slideVars, webVars, extractVars, downloads>>

\* One iteration of "while quality >= 20" of _compress_image.
CompressTry ==
    /\ ipc = "compress"
    /\ quality >= FloorQuality
    /\ \E s \in Sizes :
        /\ candidates' = Append(candidates, Jpeg(quality, FALSE, s))
        /\ IF Fits(s)
           THEN /\ img_data' = Jpeg(quality, FALSE, s)
                /\ quality' = quality
                /\ ipc' = "done"
           ELSE /\ img_data' = img_data
                /\ quality' = quality - QualityStep
                /\ ipc' = IF quality - QualityStep >= FloorQuality THEN "compress" ELSE "resize"
    /\ UNCHANGED <<dpi, halfSize, combineVars, reformatVars, slideVars, webVars, extractVars, downloads>>

\* The last resort: half width, half height, JPEG at quality 70, returned as it is.
CompressResize ==
    /\ ipc = "resize"
    /\ img_data' = ResizeBuffer
    /\ candidates' = Append(candidates, ResizeBuffer)
    /\ ipc' = "done"
    /\ UNCHANGED <<dpi, quality, halfSize, combineVars, reformatVars, slideVars, webVars, extractVars, downloads>>

NextImage == Render \/ CheckSize \/ CompressTry \/ CompressResize

SpecImage == InitImage /\ [][NextImage]_vars

\* The loops of one page run on: nothing else competes with them for the thread.
SpecImageLive == SpecImage /\ WF_vars(NextImage)

NL == "\n"
\* The characters str.strip() removes, among those the model's texts use.
Whitespace == {" ", NL}

Min(S) == CHOOSE x \in S : \A y \in S : x <= y
Max(S) == CHOOSE x \in S : \A y \in S : x >= y

\* '\n'.join(texts)
RECURSIVE JoinNL(_)
JoinNL(texts) ==
    IF texts = <<>> THEN <<>>
    ELSE IF Len(texts) = 1 THEN texts[1]
    ELSE texts[1] \o <<NL>> \o JoinNL(Tail(texts))

\* text.split('\n'): one more piece than there are line breaks
RECURSIVE SplitNL(_)
SplitNL(text) ==
    IF \A i \in 1..Len(text) : text[i] # NL THEN <<text>>
    ELSE LET k == Min({i \in 1..Len(text) : text[i] = NL})
         IN <<SubSeq(text, 1, k - 1)>> \o SplitNL(SubSeq(text, k + 1, Len(text)))

\* text.strip()
RECURSIVE StripLeft(_)
StripLeft(text) ==
    IF text # <<>> /\ Head(text) \in Whitespace THEN StripLeft(Tail(text)) ELSE text
RECURSIVE StripRight(_)
StripRight(text) ==
    IF text # <<>> /\ text[Len(text)] \in Whitespace
       THEN StripRight(SubSeq(text, 1, Len(text) - 1)) ELSE text
Strip(text) == StripRight(StripLeft(text))

\* The concatenation of a sequence of sequences.
RECURSIVE Flatten(_)
Flatten(seqs) == IF seqs = <<>> THEN <<>> ELSE Head(seqs) \o Flatten(Tail(seqs))

(***************************************************************************)
(* Cross-page combiner and organiser: _combine_pages_lyrics,               *)
(* _organize_lyrics                                                        *)
(***************************************************************************)

\* Bound: the fragments of a run, over all its pages.
MaxFragments == 3

FragmentTexts == {<<>>, <<"a">>, <<"b">>, <<" ">>}
Sections == {"", "verse 1", "chorus"}
\* current_section = None, before the first fragment
None == "<None>"

\* A fragment as _extract_lyrics_with_gpt4 returns it; lyric.get('text', '') and
\* lyric.get('section', '') read an absent key as the empty string.
Fragment(t, s, p) == [text |-> t, section |-> s, page |-> p]

\* all_page_lyrics for two pages of ts[1..k] and ts[k+1..]; a page without
\* fragments is not appended ("if lyrics_on_page").
PagesOf(fs, k) ==
    LET n == Len(fs)
        p1 == [i \in 1..k |-> Fragment(fs[i][1], fs[i][2], 1)]
        p2 == [i \in 1..(n - k) |-> Fragment(fs[k + i][1], fs[k + i][2], 2)]
    IN  (IF k > 0 THEN <<[page |-> 1, lyrics |-> p1]>> ELSE <<>>)
        \o (IF n - k > 0 THEN <<[page |-> 2, lyrics |-> p2]>> ELSE <<>>)

\* A block numbered by the blocks before it.
CombinedBlockFromZero(st) ==
    [text |-> JoinNL(st.current_text),
     section |-> st.current_section,
     line_number |-> Len(st.combined)]
\* The block appended on a flush.
CombinedBlock(st) ==
    [text |-> JoinNL(st.current_text),
     section |-> st.current_section,
     line_number |-> Len(st.combined) + 1]

\* The loop body (lines 103-117) with the test on pending text left out.
CombineStepAlwaysFlush(st, lyric) ==
    LET flush == lyric.section # st.current_section
        comb == IF flush THEN Append(st.combined, CombinedBlock(st)) ELSE st.combined
        pending == IF flush THEN <<>> ELSE st.current_text
    IN  [combined |-> comb,
         current_section |-> lyric.section,
         current_text |-> IF lyric.text # <<>> THEN Append(pending, lyric.text) ELSE pending]
\* The loop body (lines 103-117) with "elif text:" for "if text:": the fragment
\* that triggers a flush is not appended.
CombineStepElif(st, lyric) ==
    LET flush == lyric.section # st.current_section /\ st.current_text # <<>>
    IN  [combined |-> IF flush THEN Append(st.combined, CombinedBlock(st)) ELSE st.combined,
         current_section |-> lyric.section,
         current_text |-> IF flush THEN <<>>
                          ELSE IF lyric.text # <<>> THEN Append(st.current_text, lyric.text)
                          ELSE st.current_text]
\* The loop body (lines 103-117) on one fragment.
CombineStep(st, lyric) ==
    LET flush == lyric.section # st.current_section /\ st.current_text # <<>>
        comb == IF flush THEN Append(st.combined, CombinedBlock(st)) ELSE st.combined
        pending == IF flush THEN <<>> ELSE st.current_text
    IN  [combined |-> comb,
         current_section |-> lyric.section,
         current_text |-> IF lyric.text # <<>> THEN Append(pending, lyric.text) ELSE pending]

RECURSIVE CombineLyrics(_, _)
CombineLyrics(st, lyrics) ==
    IF lyrics = <<>> THEN st
    ELSE CombineLyrics(CombineStep(st, Head(lyrics)), Tail(lyrics))

RECURSIVE CombinePages(_, _)
CombinePages(st, pages) ==
    IF pages = <<>> THEN st
    ELSE CombinePages(CombineLyrics(st, Head(pages).lyrics), Tail(pages))

combine_pages_lyrics(pages) ==
    LET st == CombinePages([combined |-> <<>>, current_section |-> None,
                            current_text |-> <<>>], pages)
    IN  IF st.current_text # <<>> THEN Append(st.combined, CombinedBlock(st))
        ELSE st.combined

\* "text = lyric.get('text', '').strip()" and "if text:"
KeepBlock(lyric) == Strip(lyric.text) # <<>>

organize_lyrics(all_lyrics) == SelectSeq(all_lyrics, KeepBlock)

InitCombine ==
    /\ cpc = "combine"
    /\ \E n \in 0..MaxFragments : \E fs \in [1..n -> FragmentTexts \X Sections] :
            \E k \in 0..n : all_page_lyrics = PagesOf(fs, k)
    /\ combined_lyrics = <<>>
    /\ organized = <<>>
    /\ IdleImage /\ IdleReformat /\ IdleSlides /\ IdleWeb /\ IdleExtract /\ IdleDownloads

\* "combined_lyrics = self._combine_pages_lyrics(all_page_lyrics)"
Combine ==
    /\ cpc = "combine"
    /\ combined_lyrics' = combine_pages_lyrics(all_page_lyrics)
    /\ cpc' = "organize"
    /\ UNCHANGED <<all_page_lyrics, organized, imageVars, reformatVars, slideVars, webVars, extractVars, downloads>>

\* "self.lyrics_data = self._organize_lyrics(combined_lyrics)"
Organize ==
    /\ cpc = "organize"
    /\ organized' = organize_lyrics(combined_lyrics)
    /\ cpc' = "done"
    /\ UNCHANGED <<all_page_lyrics, combined_lyrics, imageVars, reformatVars, slideVars, webVars, extractVars, downloads>>

NextCombine == Combine \/ Organize

SpecCombine == InitCombine /\ [][NextCombine]_vars

\* The fragments of the run in page order, then in-page order.
AllFragments == Flatten([i \in 1..Len(all_page_lyrics) |-> all_page_lyrics[i].lyrics])
HasText(f) == f.text # <<>>
NonEmptyFragments == SelectSeq(AllFragments, HasText)
TextsOf(fs) == [i \in 1..Len(fs) |-> fs[i].text]

\* The places where the section label changes between successive elements.
Transitions(fs) == {i \in 1..(Len(fs) - 1) : fs[i].section # fs[i + 1].section}

\* The positions q of AllFragments that hold text and are separated from the
\* previous position p that holds text by a change of section somewhere in p..q.
SeparatedStarts ==
    LET F == AllFragments
        T == {i \in 1..Len(F) : HasText(F[i])}
    IN  {q \in T : \E p \in T :
            /\ p < q
            /\ \A r \in T : ~(p < r /\ r < q)
            /\ \E j \in (p + 1)..q : F[j].section # F[j - 1].section}

\* C1 as stated: the number of blocks is the number of section changes between
\* successive fragments with text, plus one when some fragment has text.
C1_TransitionsOfNonEmpty ==
    cpc # "combine" =>
        Len(combined_lyrics) = Cardinality(Transitions(NonEmptyFragments))
                               + (IF NonEmptyFragments # <<>> THEN 1 ELSE 0)

\* C1 amended: the number of blocks is the number of pairs of successive
\* fragments with text between which the section label changes at some point,
\* the labels of the empty-text fragments lying between the two included, plus
\* one when some fragment has text.
C1_ChangesAcrossEmptyFragments ==
    cpc # "combine" =>
        Len(combined_lyrics) = Cardinality(SeparatedStarts)
                               + (IF NonEmptyFragments # <<>> THEN 1 ELSE 0)

\* Two fragments with text and the same section, split into two blocks by an
\* empty-text fragment of another section between them.
C1_Witness ==
    /\ cpc # "combine"
    /\ Len(NonEmptyFragments) = 2
    /\ Transitions(NonEmptyFragments) = {}
    /\ Len(combined_lyrics) = 2

\* The lines of the blocks, read in block order.
BlockLines(blocks) == Flatten([i \in 1..Len(blocks) |-> SplitNL(blocks[i].text)])

\* The elements of seq at the positions K, in order.
Pick(seq, K) ==
    LET SortedK == CHOOSE f \in [1..Cardinality(K) -> K] :
                        \A i, j \in 1..Cardinality(K) : i < j => f[i] < f[j]
    IN  [i \in 1..Cardinality(K) |-> seq[SortedK[i]]]

\* C2 as stated: the blocks handed to the reformatter hold, in order, exactly the
\* non-empty fragment texts.
C2_AllNonEmptyTextsKept ==
    cpc = "done" => BlockLines(organized) = TextsOf(NonEmptyFragments)

\* C2 amended: the blocks handed to the reformatter hold, in original order and
\* without duplicates, fragment texts of the run; every fragment text that has a
\* character other than whitespace is among them, and only fragments whose text
\* is empty or entirely whitespace are omitted.
C2_NonBlankTextsKept ==
    cpc = "done" =>
        LET texts == TextsOf(NonEmptyFragments)
            must == {i \in 1..Len(texts) : Strip(texts[i]) # <<>>}
        IN  \E K \in SUBSET (1..Len(texts)) :
                /\ must \subseteq K
                /\ BlockLines(organized) = Pick(texts, K)

\* A run with a block of whitespace only, dropped, and a block with text, kept.
C2_Witness ==
    /\ cpc = "done"
    /\ Len(organized) >= 1
    /\ Len(organized) < Len(combined_lyrics)
    /\ \E i \in 1..Len(NonEmptyFragments) : Strip(NonEmptyFragments[i].text) = <<>>

(***************************************************************************)
(* Poetic reformatter: _reformat_lyrics_poetically,                        *)
(* _get_poem_reference_structure                                           *)
(***************************************************************************)

\* Bound: the fragments behind the blocks handed to the reformatter.
MaxReformatFragments == 2

\* The backquote character, written "^" here.
Fence == "^"
\* Replies of the text capability (response.choices[0].message.content).
Replies ==
    { <<"a">>,
      <<" ", "a", NL, "b", NL>>,
      <<Fence, Fence, Fence, "a", NL, Fence, Fence, Fence>>,
      <<Fence, Fence, Fence>> }
\* What a request to the text capability does: it raises, it answers without
\* content (content is None, so .strip() raises), or it answers with a reply.
RAISES == <<"raises">>
NO_CONTENT == <<"content is None">>
ReplyOutcomes == Replies \cup {RAISES, NO_CONTENT}
\* _get_poem_reference_structure: the request raised, the reply held "UNKNOWN",
\* or a reference was found; the first two return None.
LookupOutcomes == {"raised", "unknown", "found"}

\* formatted_text.replace(<three backquotes>, ''): every non-overlapping
\* occurrence, left to right
RECURSIVE RemoveFences(_)
RemoveFences(text) ==
    IF Len(text) < 3 THEN text
    ELSE IF SubSeq(text, 1, 3) = <<Fence, Fence, Fence>>
         THEN RemoveFences(SubSeq(text, 4, Len(text)))
         ELSE <<Head(text)>> \o RemoveFences(Tail(text))

\* A default of 0 for a block without a page.
PageOfDefaultZero(lyric) == IF "page" \in DOMAIN lyric THEN lyric.page ELSE 0
\* lyric.get('page', 1): blocks built by the combiner carry no page
PageOf(lyric) == IF "page" \in DOMAIN lyric THEN lyric.page ELSE 1

\* Lines 204-215: the entry built from a reply.
ReformattedBlock(lyric, content) ==
    [text |-> RemoveFences(Strip(content)),
     section |-> lyric.section,
     line_number |-> lyric.line_number,
     page |-> PageOf(lyric)]

\* The try block (lines 142-215): the blocks it appends, or the exception.
TryReformat(lyric, lookup, outcome) ==
    IF outcome \in {RAISES, NO_CONTENT}
       THEN [raised |-> TRUE, appended |-> <<>>]
       ELSE [raised |-> FALSE, appended |-> <<ReformattedBlock(lyric, outcome)>>]

\* An except clause that rebuilds the entry with the defaults of the try block.
FallbackRebuilt(lyric) ==
    <<[text |-> lyric.text, section |-> lyric.section,
       line_number |-> lyric.line_number, page |-> PageOf(lyric)]>>
\* "except Exception: reformatted_lyrics.append(lyric)"
Fallback(lyric) == <<lyric>>

\* The loop body (lines 136-220) on one block: what is appended, and whether an
\* exception leaves the function.
ReformatOne(lyric, lookup, outcome) ==
    IF lyric.text = <<>>
       THEN [raised |-> FALSE, appended |-> <<>>]
       ELSE LET t == TryReformat(lyric, lookup, outcome)
            IN  IF t.raised
                   THEN [raised |-> FALSE, appended |-> Fallback(lyric)]
                   ELSE t

InitReformat ==
    /\ rpc = "loop"
    /\ \E n \in 0..MaxReformatFragments : \E fs \in [1..n -> FragmentTexts \X Sections] :
            \E k \in 0..n :
                reformat_input = organize_lyrics(combine_pages_lyrics(PagesOf(fs, k)))
    /\ reformat_index = 0
    /\ reformatted_lyrics = <<>>
    /\ reformat_trace = <<>>
    /\ IdleImage /\ IdleCombine /\ IdleSlides /\ IdleWeb /\ IdleExtract /\ IdleDownloads

\* One iteration of "for lyric in lyrics_data".
ReformatBlock ==
    /\ rpc = "loop"
    /\ reformat_index < Len(reformat_input)
    /\ \E lookup \in LookupOutcomes : \E outcome \in ReplyOutcomes :
        LET lyric == reformat_input[reformat_index + 1]
            r == ReformatOne(lyric, lookup, outcome)
        IN  /\ reformat_index' = reformat_index + 1
            /\ reformat_trace' = Append(reformat_trace, outcome)
            /\ reformatted_lyrics' = reformatted_lyrics \o r.appended
            /\ rpc' = IF r.raised THEN "raised" ELSE "loop"
    /\ UNCHANGED <<reformat_input, imageVars, combineVars, slideVars, webVars, extractVars, downloads>>

\* "return reformatted_lyrics"
ReformatReturn ==
    /\ rpc = "loop"
    /\ reformat_index = Len(reformat_input)
    /\ rpc' = "done"
    /\ UNCHANGED <<reformat_input, reformat_index, reformatted_lyrics, reformat_trace,
                   imageVars, combineVars, slideVars, webVars, extractVars, downloads>>

NextReformat == ReformatBlock \/ ReformatReturn

SpecReformat == InitReformat /\ [][NextReformat]_vars

\* C4: a block whose reformatting request raises is output unchanged, equal to
\* the input block in every field; the failure does not leave the reformatter,
\* and the blocks after it are still processed, one output block per input block.
C4_IdentityFallback ==
    /\ rpc # "raised"
    /\ Len(reformatted_lyrics) = reformat_index
    /\ \A i \in 1..reformat_index :
          reformat_trace[i] = RAISES => reformatted_lyrics[i] = reformat_input[i]
    /\ rpc = "done" => reformat_index = Len(reformat_input)

\* The request of the first of two blocks raised, and the second block was
\* reformatted from a reply.
C4_Witness ==
    /\ rpc = "done"
    /\ Len(reformat_input) = 2
    /\ reformat_trace[1] = RAISES
    /\ reformat_trace[2] \in Replies
    /\ reformatted_lyrics[1] = reformat_input[1]
    /\ reformatted_lyrics[2] # reformat_input[2]

(***************************************************************************)
(* Slide segmenter and text exporter: segment_lyrics_for_slides,           *)
(* export_lyrics_to_text                                                   *)
(***************************************************************************)

\* Bounds: the blocks of self.lyrics_data, and the length of a block's text.
MaxBlocks == 3
MaxTextLen == 3

TextChars == {"a", " ", NL}
\* Every text of at most MaxTextLen characters.
AllTexts == UNION { [1..n -> TextChars] : n \in 0..MaxTextLen }
\* Texts of the blocks of a longer list.
ShortTexts == { <<"a">>, <<"b", NL, " ">> }
\* max_lines_per_slide
MaxLinesValues == {1, 2, 3}

\* A block of self.lyrics_data: built from a reply (with a page) or kept from
\* the combiner by the fallback (without one).
Block(t, s, n, withPage) ==
    IF withPage THEN [text |-> t, section |-> s, line_number |-> n, page |-> 1]
    ELSE [text |-> t, section |-> s, line_number |-> n]

\* section.upper()
Upper(section) ==
    CASE section = "verse 1" -> "VERSE 1"
      [] section = "chorus" -> "CHORUS"
      [] OTHER -> section

\* Lines 430-441 without the strip: the entries of one block, a line kept as it
\* is when it has a character other than whitespace.
LineEntriesUnstripped(lyric) ==
    LET lines == SplitNL(lyric.text)
        NonBlank(line) == Strip(line) # <<>>
        kept == SelectSeq(lines, NonBlank)
    IN  [i \in 1..Len(kept) |->
            <<[text |-> kept[i], section |-> lyric.section,
               line_number |-> lyric.line_number, page |-> PageOf(lyric)]>>]
\* Lines 424-441: the segments of one block, one entry per non-blank line.
LineEntries(lyric) ==
    LET lines == SplitNL(lyric.text)
        stripped == [i \in 1..Len(lines) |-> Strip(lines[i])]
        NonEmpty(line) == line # <<>>
        kept == SelectSeq(stripped, NonEmpty)
    IN  [i \in 1..Len(kept) |->
            <<[text |-> kept[i], section |-> lyric.section,
               line_number |-> lyric.line_number, page |-> PageOf(lyric)]>>]

\* A segmenter that puts up to max_lines_per_slide successive lines on a slide.
segment_lyrics_grouped(data, max_lines_per_slide) ==
    LET singles == Flatten([i \in 1..Len(data) |-> LineEntries(data[i])])
        entries == [i \in 1..Len(singles) |-> singles[i][1]]
        m == max_lines_per_slide
        n == (Len(entries) + m - 1) \div m
    IN  [g \in 1..n |-> SubSeq(entries, (g - 1) * m + 1, Min({g * m, Len(entries)}))]
\* segment_lyrics_for_slides(max_lines_per_slide) on self.lyrics_data
segment_lyrics_for_slides(data, max_lines_per_slide) ==
    IF data = <<>> THEN <<>>
    ELSE Flatten([i \in 1..Len(data) |-> LineEntries(data[i])])

\* f.write(f"\n[{section.upper()}]\n")
HeaderWrite(section) == <<NL, "[", Upper(section), "]", NL>>
\* f.write(f"{lyric['text']}\n")
TextWrite(text) == text \o <<NL>>

\* The loop body of export_lyrics_to_text with current_section set on every
\* entry, not only when a header is written.
ExportStepTrackAll(st, lyric) ==
    LET header == lyric.section # "" /\ lyric.section # st.current_section
    IN  [writes |-> st.writes
                    \o (IF header THEN <<HeaderWrite(lyric.section)>> ELSE <<>>)
                    \o <<TextWrite(lyric.text)>>,
         current_section |-> lyric.section]
\* The loop body of export_lyrics_to_text (lines 614-621) on one entry.
ExportStep(st, lyric) ==
    LET header == lyric.section # "" /\ lyric.section # st.current_section
    IN  [writes |-> st.writes
                    \o (IF header THEN <<HeaderWrite(lyric.section)>> ELSE <<>>)
                    \o <<TextWrite(lyric.text)>>,
         current_section |-> IF header THEN lyric.section ELSE st.current_section]

RECURSIVE ExportLoop(_, _)
ExportLoop(st, data) ==
    IF data = <<>> THEN st ELSE ExportLoop(ExportStep(st, Head(data)), Tail(data))

\* The writes to the text file, in order.
export_lyrics_to_text(data) ==
    ExportLoop([writes |-> <<>>, current_section |-> None], data).writes

\* title, as given or as defaulted by process_sheet_music_with_gpt4
Titles == {"Song", "Lyrics Presentation"}

\* _add_title_slide: the slide it adds
TitleSlide(title) == [kind |-> "title", text |-> title]

\* _add_slide_number: f"{current}/{total}"
Counter(current, total) == ToString(current) \o "/" \o ToString(total)

\* _add_lyrics_slide: the slide it adds; the section label is there when the
\* section is not empty.
LyricsSlide(segment, slide_num, total_slides) ==
    LET lyrics_text == JoinNL([k \in 1..Len(segment) |-> segment[k].text])
        section == IF Len(segment) > 0 THEN segment[1].section ELSE ""
    IN  [kind |-> "lyrics", text |-> lyrics_text,
         label |-> IF section # "" THEN <<"[", Upper(section), "]">> ELSE <<>>,
         counter |-> Counter(slide_num, total_slides)]

\* A numbering that starts at zero.
SlideNumberZeroBased(i) == i
\* "i + 1" of line 468
SlideNumber(i) == i + 1

InitSlides ==
    /\ spc = "ready"
    /\ \/ \E n \in 0..MaxBlocks :
            \E ts \in [1..n -> ShortTexts \X Sections \X BOOLEAN] :
                lyrics_data = [i \in 1..n |-> Block(ts[i][1], ts[i][2], i, ts[i][3])]
       \/ \E t \in AllTexts : \E s \in Sections : \E p \in BOOLEAN :
            \/ lyrics_data = <<Block(t, s, 1, p)>>
            \/ \E t2 \in ShortTexts : \E s2 \in Sections :
                  lyrics_data = <<Block(t, s, 1, p), Block(t2, s2, 2, FALSE)>>
    /\ segments = <<>>
    /\ max_lines = 0
    /\ text_file = <<>>
    /\ prs = <<>>
    /\ num_slides = 0
    /\ IdleImage /\ IdleCombine /\ IdleReformat /\ IdleWeb /\ IdleExtract /\ IdleDownloads

\* "processor.export_lyrics_to_text(text_path)"
ExportText ==
    /\ spc = "ready"
    /\ text_file' = export_lyrics_to_text(lyrics_data)
    /\ spc' = "exported"
    /\ UNCHANGED <<lyrics_data, segments, max_lines, prs, num_slides,
                   imageVars, combineVars, reformatVars, webVars, extractVars, downloads>>

\* "self._add_title_slide(prs, title)" on the new presentation
AddTitleSlide ==
    /\ spc = "exported"
    /\ \E title \in Titles : prs' = <<TitleSlide(title)>>
    /\ spc' = "titled"
    /\ UNCHANGED <<lyrics_data, segments, max_lines, text_file, num_slides,
                   imageVars, combineVars, reformatVars, webVars, extractVars, downloads>>

\* "segments = self.segment_lyrics_for_slides(max_lines_per_slide)"
SegmentLyrics ==
    /\ spc = "titled"
    /\ \E m \in MaxLinesValues :
        /\ max_lines' = m
        /\ segments' = segment_lyrics_for_slides(lyrics_data, m)
    /\ spc' = "segmented"
    /\ UNCHANGED <<lyrics_data, text_file, prs, num_slides,
                   imageVars, combineVars, reformatVars, webVars, extractVars, downloads>>

\* One turn of "for i, segment in enumerate(segments)": i is the number of
\* lyric slides added so far.
AddLyricsSlide ==
    /\ spc \in {"segmented", "slides"}
    /\ Len(prs) - 1 < Len(segments)
    /\ LET i == Len(prs) - 1
       IN  prs' = Append(prs, LyricsSlide(segments[i + 1], SlideNumber(i), Len(segments)))
    /\ spc' = "slides"
    /\ UNCHANGED <<lyrics_data, segments, max_lines, text_file, num_slides,
                   imageVars, combineVars, reformatVars, webVars, extractVars, downloads>>

\* "prs.save(output_path)" and "return len(segments)"; the save may raise.
SaveDeck ==
    /\ spc \in {"segmented", "slides"}
    /\ Len(prs) - 1 = Len(segments)
    /\ \/ spc' = "done" /\ num_slides' = Len(segments)
       \/ spc' = "raised" /\ UNCHANGED num_slides
    /\ UNCHANGED <<lyrics_data, segments, max_lines, text_file, prs,
                   imageVars, combineVars, reformatVars, webVars, extractVars, downloads>>

NextSlides == ExportText \/ AddTitleSlide \/ SegmentLyrics \/ AddLyricsSlide \/ SaveDeck

SpecSlides == InitSlides /\ [][NextSlides]_vars

\* The pieces of a text between its line breaks, first to last.
LinesBetweenBreaks(text) ==
    LET breaks == {0, Len(text) + 1} \cup {i \in 1..Len(text) : text[i] = NL}
        Next(b) == Min({c \in breaks : c > b})
        starts == breaks \ {Len(text) + 1}
    IN  Pick([c \in 1..(Len(text) + 1) |->
                    IF c - 1 \in starts THEN SubSeq(text, c, Next(c - 1) - 1) ELSE <<>>],
             {b + 1 : b \in starts})

IsBlank(line) == \A i \in 1..Len(line) : line[i] \in {" ", NL}
NotBlank(line) == ~IsBlank(line)

\* A line without the whitespace before its first and after its last other
\* character.
Trimmed(line) ==
    LET solid == {i \in 1..Len(line) : line[i] \notin {" ", NL}}
    IN  IF solid = {} THEN <<>> ELSE SubSeq(line, Min(solid), Max(solid))

\* The non-blank lines of all the blocks, in block order.
NonBlankLines(data) ==
    Flatten([i \in 1..Len(data) |-> SelectSeq(LinesBetweenBreaks(data[i].text), NotBlank)])

SegmentTexts == [i \in 1..Len(segments) |-> segments[i][1].text]

\* C3 as stated: the texts of the segments, in order, are the lines of the
\* blocks' texts, in block order, without the blank lines, each line unchanged.
C3_LinesUnchanged ==
    spc = "segmented" => SegmentTexts = NonBlankLines(lyrics_data)

\* C3 amended: the texts of the segments, in order, are the lines of the blocks'
\* texts, in block order, without the blank lines, each line with its leading
\* and trailing whitespace removed and otherwise unchanged.
C3_LinesTrimmed ==
    spc = "segmented" =>
        LET lines == NonBlankLines(lyrics_data)
        IN  SegmentTexts = [i \in 1..Len(lines) |-> Trimmed(lines[i])]

\* A block with a blank line between two lines, one of them with whitespace
\* around its text.
C3_Witness ==
    /\ spc = "segmented"
    /\ Len(segments) = 2
    /\ \E i \in 1..Len(lyrics_data) :
          /\ Len(LinesBetweenBreaks(lyrics_data[i].text)) >= 2
          /\ \E k \in 1..Len(LinesBetweenBreaks(lyrics_data[i].text)) :
                LET line == LinesBetweenBreaks(lyrics_data[i].text)[k]
                IN  NotBlank(line) /\ Trimmed(line) # line

\* The writes a rule for headers expects: for each entry, a header when the rule
\* asks for one, then the entry's text.
ExpectedWrites(data, WantsHeader(_)) ==
    Flatten([i \in 1..Len(data) |->
                (IF WantsHeader(i) THEN <<HeaderWrite(data[i].section)>> ELSE <<>>)
                \o <<TextWrite(data[i].text)>>])

\* C7 as stated: every entry's text is written once, in order, with a header
\* right before an entry exactly when its section is non-empty and differs from
\* the section of the entry just before it, or the entry is the first one.
C7_HeaderOnChangeFromPrevious ==
    spc # "ready" =>
        LET Changes(i) == /\ lyrics_data[i].section # ""
                          /\ (i = 1 \/ lyrics_data[i].section # lyrics_data[i - 1].section)
        IN  text_file = ExpectedWrites(lyrics_data, Changes)

\* C7 amended: every entry's text is written once, in order, with a header right
\* before an entry exactly when its section is non-empty and differs from the
\* section of the nearest earlier entry whose section is non-empty, or no
\* earlier entry has a non-empty section; an entry with an empty section never
\* gets a header.
C7_HeaderOnChangeFromLastLabelled ==
    spc # "ready" =>
        LET Labelled(i) == {j \in 1..(i - 1) : lyrics_data[j].section # ""}
            Changes(i) == /\ lyrics_data[i].section # ""
                          /\ \/ Labelled(i) = {}
                             \/ lyrics_data[i].section # lyrics_data[Max(Labelled(i))].section
        IN  text_file = ExpectedWrites(lyrics_data, Changes)

\* Three entries: a section, no section, the first section again; one header.
C7_Witness ==
    /\ spc # "ready"
    /\ Len(lyrics_data) = 3
    /\ lyrics_data[1].section = "chorus"
    /\ lyrics_data[2].section = ""
    /\ lyrics_data[3].section = "chorus"
    /\ Len(text_file) = 4

(***************************************************************************)
(* The pipeline entry point, the command line and the web front-end:       *)
(* process_sheet_music_with_gpt4, run_gpt4_cli.py, simple_web.py           *)
(***************************************************************************)

\* datetime.now().strftime('%Y%m%d_%H%M%S'): the seconds in which requests arrive
Timestamps == {1, 2}

\* f"{timestamp}_{filename}" in UPLOAD_FOLDER; f"{timestamp}_output.pptx" and its
\* "_lyrics.txt" in OUTPUT_FOLDER
UploadName(t) == [kind |-> "pdf", ts |-> t]
DeckName(t) == [kind |-> "pptx", ts |-> t]
LyricsName(t) == [kind |-> "txt", ts |-> t]
DeckNames == {DeckName(t) : t \in Timestamps}
OutputNames == DeckNames \cup {LyricsName(t) : t \in Timestamps}

\* path.replace('.pptx', '_lyrics.txt'): a name without ".pptx" stays as it is
LyricsPathOf(name) == IF name.kind = "pptx" THEN LyricsName(name.ts) ELSE name

\* A run of the pipeline, as its environment decides it: the call that raises if
\* any (fitz.open, the write of the text export, prs.save), the number of lyric
\* blocks extracted, and whether a write that raised left its file behind.
PipelineRuns ==
    { [fault |-> "open", lyrics |-> 0, leaves_file |-> FALSE],
      [fault |-> "none", lyrics |-> 0, leaves_file |-> FALSE],
      [fault |-> "none", lyrics |-> 1, leaves_file |-> FALSE] }
    \cup [fault : {"export", "save"}, lyrics : {1}, leaves_file : BOOLEAN]
NoRun == [fault |-> "-", lyrics |-> 0, leaves_file |-> FALSE]

\* "if not lyrics_data: print(...); return" (lines 646-648): the call returns,
\* with None, after the one extraction request.
NoLyrics ==
    [raised |-> FALSE, outcome |-> "no lyrics", wrote |-> {}, requests |-> 1]

\* process_sheet_music_with_gpt4: whether it raises, what it returns, the files it
\* writes, and the model requests it issues (one per page, here one page, and
\* two per block).
process_sheet_music_with_gpt4(run) ==
    LET requests == 1 + 2 * run.lyrics
    IN  IF run.fault = "open"
           THEN [raised |-> TRUE, outcome |-> "raised", wrote |-> {}, requests |-> 0]
        ELSE IF run.lyrics = 0
           THEN NoLyrics
        ELSE IF run.fault = "export"
           THEN [raised |-> TRUE, outcome |-> "raised",
                 wrote |-> IF run.leaves_file THEN {"txt"} ELSE {}, requests |-> requests]
        ELSE IF run.fault = "save"
           THEN [raised |-> TRUE, outcome |-> "raised",
                 wrote |-> IF run.leaves_file THEN {"txt", "pptx"} ELSE {"txt"},
                 requests |-> requests]
        ELSE [raised |-> FALSE, outcome |-> "completed", wrote |-> {"txt", "pptx"},
              requests |-> requests]

\* The pipeline call was never reached.
NotCalled == [raised |-> FALSE, outcome |-> "not called", wrote |-> {}, requests |-> 0]

\* The files of OUTPUT_FOLDER a run at second t writes.
WrittenNames(wrote, t) ==
    (IF "txt" \in wrote THEN {LyricsName(t)} ELSE {})
    \cup (IF "pptx" \in wrote THEN {DeckName(t)} ELSE {})

\* ---- run_gpt4_cli.py

CliRuns == [argc_ok : {TRUE}, run : PipelineRuns] \cup {[argc_ok |-> FALSE, run |-> NoRun]}

\* The command line: exit code, what it prints, what the pipeline did.
cli_main(c) ==
    IF ~c.argc_ok
       THEN [op |-> "cli", exit |-> 1, stdout |-> "Usage", stderr |-> "", p |-> NotCalled]
    ELSE LET p == process_sheet_music_with_gpt4(c.run)
         IN  IF p.raised
                THEN [op |-> "cli", exit |-> 1, stdout |-> "", stderr |-> "Error", p |-> p]
                ELSE [op |-> "cli", exit |-> 0, stdout |-> "Success", stderr |-> "", p |-> p]

\* ---- simple_web.py: POST /process

FileFields == {"absent", "", "notes.txt", "song.pdf"}
\* request.form.get('api_key', ''): an absent key reads as the empty one
ApiKeys == {"", "sk-key"}
Requests == [file : FileFields, api_key : ApiKeys]

\* file.filename.endswith('.pdf')
EndsWithPdf(filename) == filename = "song.pdf"

Json(success, error) == [kind |-> "json", success |-> success, error |-> error]

\* The checks of lines 315-328 without the one on the credential.
ValidateNoKeyCheck(req) ==
    IF req.file = "absent" THEN "No file uploaded"
    ELSE IF req.file = "" \/ ~EndsWithPdf(req.file) THEN "Please upload a PDF file"
    ELSE "ok"
\* Lines 315-328: the error a request is turned away with, or "ok".
Validate(req) ==
    IF req.file = "absent" THEN "No file uploaded"
    ELSE IF req.file = "" \/ ~EndsWithPdf(req.file) THEN "Please upload a PDF file"
    ELSE IF req.api_key = "" THEN "Please provide an OpenAI API key"
    ELSE "ok"

\* The operations after the pipeline call that may raise: reading the text
\* export, removing the upload, removing the upload in the except clause.
PostFaults == {"read_lyrics", "remove_input", "remove_cleanup"}

\* What a request meets: the request itself, how file.save ends, the pipeline
\* run, and which of the later operations raise.
Scenarios ==
    { [req |-> r, save |-> "-", run |-> NoRun, post |-> {}] :
        r \in {q \in Requests : Validate(q) # "ok"} }
    \cup { [req |-> r, save |-> sv, run |-> NoRun, post |-> {}] :
             r \in {q \in Requests : Validate(q) = "ok"},
             sv \in {"fails", "fails leaving file"} }
    \cup { [req |-> r, save |-> "ok", run |-> run, post |-> post] :
             r \in {q \in Requests : Validate(q) = "ok"},
             run \in PipelineRuns, post \in SUBSET PostFaults }

\* Where the handler stands: the answer, the two folders, what the pipeline call
\* did, and the failures met.
Handled(resp, ups, outs, p, events) ==
    [resp |-> resp, uploads |-> ups, outputs |-> outs, p |-> p, events |-> events]

\* An outer handler that lets the exception through to the framework.
OnRequestErrorReraise(r) ==
    Handled([kind |-> "exception", success |-> FALSE, error |-> ""],
            r.uploads, r.outputs, r.p, r.events)
\* "except Exception as e" of lines 399-407
OnRequestError(r) ==
    Handled(Json(FALSE, "Request failed"), r.uploads, r.outputs, r.p, r.events)

\* An except clause that answers without removing the upload.
OnProcessingErrorKeep(r, sc, t) ==
    Handled(Json(FALSE, "Processing failed"), r.uploads, r.outputs, r.p, r.events)
\* "except Exception as e" of lines 385-397: remove the upload, answer; a raise
\* in it goes to the outer handler.
OnProcessingError(r, sc, t) ==
    IF UploadName(t) \in r.uploads /\ "remove_cleanup" \in sc.post
       THEN OnRequestError(Handled(r.resp, r.uploads, r.outputs, r.p,
                                   r.events \cup {"remove_cleanup"}))
       ELSE Handled(Json(FALSE, "Processing failed"),
                    r.uploads \ {UploadName(t)}, r.outputs, r.p, r.events)

\* The inner try block (lines 342-383), after the upload is saved.
RunPipeline(sc, t, ups, outs) ==
    LET p == process_sheet_music_with_gpt4(sc.run)
        outs1 == outs \cup WrittenNames(p.wrote, t)
        ok == [kind |-> "json", success |-> TRUE, error |-> "", pptx_path |-> DeckName(t)]
    IN  IF p.raised
           THEN OnProcessingError(Handled(ok, ups, outs1, p, {"pipeline"}), sc, t)
        ELSE IF LyricsName(t) \in outs1 /\ "read_lyrics" \in sc.post
           THEN OnProcessingError(Handled(ok, ups, outs1, p, {"read_lyrics"}), sc, t)
        ELSE IF UploadName(t) \in ups /\ "remove_input" \in sc.post
           THEN OnProcessingError(Handled(ok, ups, outs1, p, {"remove_input"}), sc, t)
        ELSE Handled(ok, ups \ {UploadName(t)}, outs1, p, {})

\* process(): the handler of POST /process at second t on the two folders.
process(sc, t, ups, outs) ==
    LET v == Validate(sc.req)
    IN  IF v # "ok"
           THEN Handled(Json(FALSE, v), ups, outs, NotCalled, {"validation"})
        ELSE IF sc.save = "fails"
           THEN OnRequestError(Handled(Json(FALSE, ""), ups, outs, NotCalled, {"save"}))
        ELSE IF sc.save = "fails leaving file"
           THEN OnRequestError(Handled(Json(FALSE, ""), ups \cup {UploadName(t)}, outs,
                                       NotCalled, {"save"}))
        ELSE RunPipeline(sc, t, ups \cup {UploadName(t)}, outs)

\* ---- simple_web.py: GET /download/<name>

DownloadFaults == {"read", "remove_deck", "remove_lyrics"}

\* A download that answers without removing anything.
download_file_keep(name, faults, outs) ==
    IF name \notin outs THEN [status |-> 404, outputs |-> outs]
    ELSE IF "read" \in faults THEN [status |-> 500, outputs |-> outs]
    ELSE [status |-> 200, outputs |-> outs]
\* download_file(): the status answered and the output folder afterwards.
download_file(name, faults, outs) ==
    IF name \notin outs THEN [status |-> 404, outputs |-> outs]
    ELSE IF "read" \in faults THEN [status |-> 500, outputs |-> outs]
    ELSE IF "remove_deck" \in faults THEN [status |-> 500, outputs |-> outs]
    ELSE LET outs1 == outs \ {name}
         IN  IF LyricsPathOf(name) \in outs1
                THEN IF "remove_lyrics" \in faults
                        THEN [status |-> 500, outputs |-> outs1]
                        ELSE [status |-> 200, outputs |-> outs1 \ {LyricsPathOf(name)}]
                ELSE [status |-> 200, outputs |-> outs1]

InitWeb ==
    /\ uploads = {}
    /\ outputs = {}
    /\ now = 1
    /\ last = [op |-> "none"]
    /\ downloaded = {}
    /\ IdleImage /\ IdleCombine /\ IdleReformat /\ IdleSlides /\ IdleExtract /\ IdleDownloads

\* A second passes.
Tick ==
    /\ \E t \in Timestamps : t > now /\ now' = t
    /\ UNCHANGED <<uploads, outputs, last, downloaded,
                   imageVars, combineVars, reformatVars, slideVars, extractVars, downloads>>

\* POST /process
Process ==
    /\ \E sc \in Scenarios :
        LET r == process(sc, now, uploads, outputs)
        IN  /\ uploads' = r.uploads
            /\ outputs' = r.outputs
            /\ last' = [op |-> "process", sc |-> sc, ts |-> now, resp |-> r.resp,
                        p |-> r.p, events |-> r.events]
            /\ downloaded' = downloaded \ r.outputs
    /\ UNCHANGED <<now, imageVars, combineVars, reformatVars, slideVars, extractVars, downloads>>

\* GET /download/<name>
Download ==
    /\ \E name \in OutputNames : \E faults \in SUBSET DownloadFaults :
        LET r == download_file(name, faults, outputs)
        IN  /\ outputs' = r.outputs
            /\ last' = [op |-> "download", name |-> name, status |-> r.status]
            /\ downloaded' = IF r.status = 200 /\ name \in DeckNames
                                THEN downloaded \cup {name} ELSE downloaded
    /\ UNCHANGED <<uploads, now, imageVars, combineVars, reformatVars, slideVars, extractVars, downloads>>

\* python run_gpt4_cli.py <input_pdf> <output_pptx> <title> <api_key>
CliMain ==
    /\ \E c \in CliRuns : last' = cli_main(c)
    /\ UNCHANGED <<uploads, outputs, now, downloaded,
                   imageVars, combineVars, reformatVars, slideVars, extractVars, downloads>>

NextWeb == Tick \/ Process \/ Download \/ CliMain

SpecWeb == InitWeb /\ [][NextWeb]_vars

\* ---- C6

\* The last run, from the command line or from POST /process, extracted no lyrics.
NoLyricsRun == last.op \in {"cli", "process"} /\ last.p.outcome = "no lyrics"

\* C6: a run that extracts no lyrics at all is a failure that reaches the
\* caller: it creates no deck file, the command line exits with code 1 and an
\* error message and does not print "Success", and POST /process answers with
\* success false.
C6_NoLyricsIsFatal ==
    NoLyricsRun =>
        /\ "pptx" \notin last.p.wrote
        /\ last.op = "cli" =>
              last.exit = 1 /\ last.stderr = "Error" /\ last.stdout # "Success"
        /\ last.op = "process" => last.resp.success = FALSE

\* ---- C8

\* C8: a download that answers 200 for a deck leaves neither the deck nor its
\* paired lyrics file in the output folder, and a download of a deck served
\* before and not regenerated since answers 404.
C8_ServedOnce ==
    [][ (last'.op = "download" /\ now' = now) =>
          /\ (last'.status = 200 /\ last'.name \in DeckNames) =>
                /\ last'.name \notin outputs'
                /\ LyricsPathOf(last'.name) \notin outputs'
          /\ last'.name \in downloaded => last'.status = 404 ]_vars

\* A deck served before, and not regenerated since, is asked for again and
\* answered 404.
C8_Witness ==
    /\ last.op = "download"
    /\ last.name \in downloaded
    /\ last.status = 404
    /\ LyricsPathOf(last.name) \notin outputs

\* ---- C9

FailureInside ==
    \/ Validate(last.sc.req) # "ok"
    \/ last.sc.save \in {"fails", "fails leaving file"}
    \/ last.sc.run.fault \in {"open", "export", "save"}
    \/ last.events # {}

\* C10: POST /process always answers with a JSON object; on every failure inside
\* the request the answer has success false and an error text; success true is
\* answered only when the pipeline call returned without raising.
C10_AlwaysJson ==
    last.op = "process" =>
        /\ last.resp.kind = "json"
        /\ FailureInside => last.resp.success = FALSE /\ last.resp.error # ""
        /\ last.resp.success = TRUE =>
              ~last.p.raised /\ last.p.outcome \in {"no lyrics", "completed"}

\* The deck could not be written, the upload could not be removed either, and
\* the request was still answered in JSON.
C10_Witness ==
    /\ last.op = "process"
    /\ last.sc.run.fault = "save"
    /\ last.events = {"pipeline", "remove_cleanup"}
    /\ last.resp = Json(FALSE, "Request failed")

(***************************************************************************)
(* The Lambda adapter: lambda_handler.py in front of simple_web.py         *)
(***************************************************************************)

\* '/Prod'
SlashProd == <<"/", "P", "r", "o", "d">>

\* s.startswith(prefix)
StartsWith(s, prefix) == Len(s) >= Len(prefix) /\ SubSeq(s, 1, Len(prefix)) = prefix

\* s[n:]
DropFirst(s, n) == SubSeq(s, Min({n, Len(s)}) + 1, Len(s))

\* The text of a path up to its second "/" (or its end): "/" and the first segment.
FirstSegment(path) ==
    LET ends == {i \in 2..Len(path) : path[i] = "/"}
    IN  IF ends = {} THEN path ELSE SubSeq(path, 1, Min(ends) - 1)

\* A normalisation that removes "/Prod" only as a whole first segment.
NormalizePathSegment(path) ==
    IF FirstSegment(path) = SlashProd THEN DropFirst(path, Len(SlashProd)) ELSE path
\* Lines 13-14: event['path'][5:] when the path starts with '/Prod'.
NormalizePath(path) ==
    IF StartsWith(path, SlashProd) THEN DropFirst(path, 5) ELSE path

\* The file name a /download/<path:filename> URL carries for a file of the
\* output folder: "1" for the deck of second 1, "1t" for its lyrics file.
FileChars(name) ==
    IF name.kind = "pptx" THEN <<ToString(name.ts)>> ELSE <<ToString(name.ts), "t">>

SlashProcess == <<"/", "p", "r", "o", "c", "e", "s", "s">>
SlashDownload == <<"/", "d", "o", "w", "n", "l", "o", "a", "d", "/">>
SlashHealth == <<"/", "h", "e", "a", "l", "t", "h">>
SlashTest == <<"/", "t", "e", "s", "t">>

\* The incoming paths.
Paths ==
    { <<>>, <<"/">>, SlashProcess, SlashHealth, SlashTest,
      SlashProd, SlashProd \o <<"/">>, SlashProd \o SlashProcess,
      SlashProd \o SlashHealth,
      <<"/", "P", "r", "o", "d", "x">>, <<"/", "P", "r", "o", "d", "u", "c", "t", "i", "o", "n", "/", "x">>, <<"/", "P", "r", "o", "d", "p", "r", "o", "c", "e", "s", "s">>,
      <<"/", "p", "r", "o", "d", "/", "p", "r", "o", "c", "e", "s", "s">> }
    \cup { SlashDownload \o FileChars(n) : n \in OutputNames }
    \cup { SlashProd \o SlashDownload \o FileChars(n) : n \in DeckNames }

Methods == {"GET", "POST", "OPTIONS"}

\* The view a path and a method are routed to by the application (the routes of
\* simple_web.py); "options" is the framework's own answer to OPTIONS on a route.
Route(path, method) ==
    LET view == IF path = <<"/">> THEN "index"
                ELSE IF path = SlashProcess THEN "process"
                ELSE IF path = SlashHealth THEN "health"
                ELSE IF path = SlashTest THEN "test"
                ELSE IF \E n \in OutputNames : path = SlashDownload \o FileChars(n)
                   THEN "download_file"
                ELSE "not found"
    IN  IF view = "not found" THEN view
        ELSE IF method = "OPTIONS" THEN "options"
        ELSE IF view = "process" THEN (IF method = "POST" THEN view ELSE "not allowed")
        ELSE IF method = "GET" THEN view ELSE "not allowed"

\* The file a download path names.
NameOf(path) == CHOOSE n \in OutputNames : path = SlashDownload \o FileChars(n)

\* What a request meets when no upload is saved and no download is served.
NoScenario ==
    [req |-> [file |-> "absent", api_key |-> ""], save |-> "-", run |-> NoRun, post |-> {}]

\* The scenarios of POST /process behind the adapter.
LambdaScenarios == {sc \in Scenarios : sc.post = {} /\ sc.save # "fails leaving file"}

\* The API Gateway events: path, httpMethod, and what the request meets in the
\* application.
Events ==
    [path : Paths, httpMethod : Methods, sc : {NoScenario}, faults : {{}}]
    \cup [path : {SlashProcess, SlashProd \o SlashProcess}, httpMethod : {"POST"},
          sc : LambdaScenarios, faults : {{}}]
    \cup [path : {q \in Paths : Route(NormalizePath(q), "GET") = "download_file"},
          httpMethod : {"GET"}, sc : {NoScenario},
          faults : {{"read"}, {"remove_lyrics"}}]

CorsHeaders ==
    {"Access-Control-Allow-Origin", "Access-Control-Allow-Methods",
     "Access-Control-Allow-Headers"}

\* serverless_wsgi.handle_request(app, event, context): the application's answer
\* to the request under the given path, and the two folders afterwards.
Dispatch(path, event, t, ups, outs) ==
    LET view == Route(path, event.httpMethod)
        answer(status, body, u, o) ==
            [statusCode |-> status, body |-> body, headers |-> {"Content-Type"},
             uploads |-> u, outputs |-> o, view |-> view]
    IN  IF view = "process"
           THEN LET r == process(event.sc, t, ups, outs)
                IN  answer(200, IF r.resp.success THEN "success" ELSE r.resp.error,
                           r.uploads, r.outputs)
        ELSE IF view = "download_file"
           THEN LET r == download_file(NameOf(path), event.faults, outs)
                IN  answer(r.status, IF r.status = 200 THEN "file" ELSE "", ups, r.outputs)
        ELSE IF view = "not found" THEN answer(404, "", ups, outs)
        ELSE IF view = "not allowed" THEN answer(405, "", ups, outs)
        ELSE IF view = "options" THEN answer(200, "", ups, outs)
        ELSE answer(200, view, ups, outs)

\* A handler that sends every event on to the application.
IsPreflightNever(event) == FALSE
\* Line 18: event.get('httpMethod') == 'OPTIONS'
IsPreflight(event) == event.httpMethod = "OPTIONS"

\* handler(event, context): the response, whether and under which path the
\* request was sent on to the application, and the two folders afterwards.
handler(event, t, ups, outs) ==
    LET path == NormalizePath(event.path)
    IN  IF IsPreflight(event)
           THEN [statusCode |-> 200, body |-> "",
                 headers |-> CorsHeaders \cup {"Access-Control-Max-Age"},
                 uploads |-> ups, outputs |-> outs,
                 dispatched |-> FALSE, path |-> path, view |-> "none"]
           ELSE LET response == Dispatch(path, event, t, ups, outs)
                IN  [statusCode |-> response.statusCode, body |-> response.body,
                     headers |-> response.headers \cup CorsHeaders,
                     uploads |-> response.uploads, outputs |-> response.outputs,
                     dispatched |-> TRUE, path |-> path, view |-> response.view]

\* One invocation of the Lambda function.
Invoke ==
    /\ \E event \in Events :
        LET r == handler(event, now, uploads, outputs)
        IN  /\ uploads' = r.uploads
            /\ outputs' = r.outputs
            /\ last' = [op |-> "lambda", event |-> event, statusCode |-> r.statusCode,
                        body |-> r.body, headers |-> r.headers,
                        dispatched |-> r.dispatched, path |-> r.path, view |-> r.view]
            /\ downloaded' =
                  IF r.view = "download_file" /\ r.statusCode = 200
                     /\ NameOf(r.path) \in DeckNames
                     THEN downloaded \cup {NameOf(r.path)}
                     ELSE downloaded \ r.outputs
    /\ UNCHANGED <<now, imageVars, combineVars, reformatVars, slideVars, extractVars, downloads>>

NextLambda == Tick \/ Invoke

SpecLambda == InitWeb /\ [][NextLambda]_vars

\* ---- C11

\* C11: an OPTIONS event, on any path, is answered with status 200, an empty
\* body and the three Access-Control-Allow headers, is not sent on to the
\* application, and changes no file of the two folders.
C11_PreflightShortCircuit ==
    [][ (last'.op = "lambda" /\ now' = now /\ last'.event.httpMethod = "OPTIONS") =>
          /\ last'.statusCode = 200
          /\ last'.body = ""
          /\ CorsHeaders \subseteq last'.headers
          /\ ~last'.dispatched
          /\ uploads' = uploads
          /\ outputs' = outputs ]_vars

\* An OPTIONS event on the download path of a deck that is in the output folder,
\* with its lyrics file, was answered.
C11_Witness ==
    /\ last.op = "lambda"
    /\ last.event.httpMethod = "OPTIONS"
    /\ \E n \in DeckNames :
          /\ last.event.path = SlashProd \o SlashDownload \o FileChars(n)
          /\ n \in outputs /\ LyricsPathOf(n) \in outputs

\* ---- C12

\* C12: the request is sent on under the incoming path without its leading
\* "/Prod" when the first segment of the incoming path is exactly "Prod", and
\* under the incoming path itself in every other case.
C12_StripsProdSegment ==
    (last.op = "lambda" /\ last.dispatched) =>
        last.path = IF FirstSegment(last.event.path) = SlashProd
                       THEN DropFirst(last.event.path, Len(SlashProd))
                       ELSE last.event.path

\* C12, amended: the request is sent on under the path that, with "/Prod" put
\* back in front, is the incoming path, whenever the incoming path has such a
\* remainder (its first five characters are "/Prod", whatever follows them), and
\* under the incoming path itself in every other case.
C12_StripsProdPrefix ==
    (last.op = "lambda" /\ last.dispatched) =>
        IF \E i \in 0..Len(last.event.path) :
              SlashProd \o DropFirst(last.event.path, i) = last.event.path
           THEN SlashProd \o last.path = last.event.path
           ELSE last.path = last.event.path

\* A request for /Prod/process was sent on as /process and reached the view; one
\* for a path that only begins with the letters is covered by the same formula.
C12_Witness ==
    /\ last.op = "lambda" /\ last.dispatched
    /\ last.event.path = SlashProd \o SlashProcess
    /\ last.path = SlashProcess
    /\ last.view = "process"

\* ---- C13

\* C13: the deck of create_powerpoint is one title slide followed by one slide
\* per segment in segment order, the k-th lyric slide carries the counter
\* "k/total" with total the number of segments, and the value returned is the
\* number of segments.
C13_DeckShape ==
    spc = "done" =>
        /\ Len(prs) = 1 + Len(segments)
        /\ prs[1].kind = "title"
        /\ \A k \in 1..Len(segments) :
              /\ prs[k + 1].kind = "lyrics"
              /\ prs[k + 1].text = segments[k][1].text
              /\ prs[k + 1].counter = ToString(k) \o "/" \o ToString(Len(segments))
        /\ num_slides = Len(segments)

\* A deck of a title slide and at least three lyric slides was saved.
C13_Witness ==
    /\ spc = "done"
    /\ Len(segments) >= 3
    /\ num_slides = Len(segments)
    /\ prs[4].counter = "3/" \o ToString(Len(segments))

\* ---- C14

\* The candidates in their fixed order: what is encoded, whatever its size.
CandidateOrder ==
    << [format |-> "PNG", dpi |-> 200, quality |-> 0, half |-> FALSE],
       [format |-> "PNG", dpi |-> 150, quality |-> 0, half |-> FALSE],
       [format |-> "PNG", dpi |-> 100, quality |-> 0, half |-> FALSE] >>
    \o [k \in 1..7 |-> [format |-> "JPEG", dpi |-> 100, quality |-> 95 - 10 * k,
                        half |-> FALSE]]
    \o << [format |-> "JPEG", dpi |-> 100, quality |-> 70, half |-> TRUE] >>

Kind(buffer) ==
    [format |-> buffer.format, dpi |-> buffer.dpi, quality |-> buffer.quality,
     half |-> buffer.half]

\* The buffers encoded so far are the first candidates of the fixed order, and
\* all but the last of them are over the ceiling.
TriedInOrder ==
    /\ Len(candidates) <= Len(CandidateOrder)
    /\ \A i \in 1..Len(candidates) : Kind(candidates[i]) = CandidateOrder[i]
    /\ \A i \in 1..(Len(candidates) - 1) : candidates[i].size > 20 * 1024 * 1024

\* The buffer returned is the last one encoded, and it is at or under the
\* ceiling unless it is the half-resolution one.
ReturnsFirstFit ==
    ipc = "done" =>
        /\ Len(candidates) >= 1
        /\ img_data = candidates[Len(candidates)]
        /\ img_data.size <= 20 * 1024 * 1024 \/ Len(candidates) = Len(CandidateOrder)
        /\ \A i \in 1..Len(CandidateOrder) - 1 :
              (i <= Len(candidates) /\ candidates[i].size <= 20 * 1024 * 1024)
                  => Len(candidates) = i

SectionedLines(blocks) ==
    Flatten([i \in 1..Len(blocks) |->
                LET lines == SplitNL(blocks[i].text)
                IN  [j \in 1..Len(lines) |->
                        [section |-> blocks[i].section, text |-> lines[j]]]])

\* C15: every block of _combine_pages_lyrics holds texts of fragments of its own
\* section only, the texts stand in the order the fragments were produced, and
\* the line_number of a block is its position in the list, counted from one.
C15_SectionCoherent ==
    cpc # "combine" =>
        /\ SectionedLines(combined_lyrics) =
              [i \in 1..Len(NonEmptyFragments) |->
                  [section |-> NonEmptyFragments[i].section,
                   text |-> NonEmptyFragments[i].text]]
        /\ \A i \in 1..Len(combined_lyrics) : combined_lyrics[i].line_number = i

\* Two blocks, the first joined from fragments of two pages.
C15_Witness ==
    /\ cpc # "combine"
    /\ Len(all_page_lyrics) = 2
    /\ Len(combined_lyrics) = 2
    /\ Len(SplitNL(combined_lyrics[1].text)) = 2
    /\ all_page_lyrics[1].lyrics[Len(all_page_lyrics[1].lyrics)].section
          = all_page_lyrics[2].lyrics[1].section
    /\ combined_lyrics[2].line_number = 2

(***************************************************************************)
(* One run of extract_lyrics_from_pdf, step by step: the page loop with    *)
(* _extract_lyrics_with_gpt4, then the combiner, then the two requests per *)
(* block of _reformat_lyrics_poetically                                    *)
(***************************************************************************)

\* Bounds: the pages of a document, and the tokens of a reply that is examined
\* on its own.
MaxPages == 2
MaxReplyLen == 6

\* A reply of the vision request, in tokens: a brace, a stretch of prose, or a
\* member "lyrics": [...] with one of two lists.
ReplyTokens == {"{", "}", "p", "l1", "l2"}

\* The list a "lyrics" member holds, before the page number is attached.
LyricsList(token) ==
    IF token = "l1" THEN << [text |-> <<"a">>, section |-> "verse 1"] >>
    ELSE << [text |-> <<"b">>, section |-> "chorus"] >>

\* re.search(r'\{.*\}', response_text, re.DOTALL): from the first "{" to the
\* last "}" of the reply, when the first comes before the last.
NoMatch == <<"no match">>
JsonMatch(response_text) ==
    LET opens == {i \in 1..Len(response_text) : response_text[i] = "{"}
        closes == {i \in 1..Len(response_text) : response_text[i] = "}"}
    IN  IF opens # {} /\ closes # {} /\ Min(opens) < Max(closes)
           THEN SubSeq(response_text, Min(opens), Max(closes))
           ELSE NoMatch

\* The nesting depth after the first k tokens.
Depth(text, k) ==
    Cardinality({i \in 1..k : text[i] = "{"}) - Cardinality({i \in 1..k : text[i] = "}"})

\* json.loads accepts the text: one object, its braces matched, nothing but
\* members and nested objects inside, nothing after it.
IsJsonObject(text) ==
    /\ Len(text) >= 2
    /\ text[1] = "{"
    /\ \A i \in 1..Len(text) : text[i] # "p"
    /\ \A k \in 1..(Len(text) - 1) : Depth(text, k) >= 1
    /\ Depth(text, Len(text)) = 0

\* lyrics_data.get('lyrics', []) of the parsed object: the last "lyrics" member
\* of the object itself, the empty list when it has none.
GetLyrics(text) ==
    LET own == {i \in 1..Len(text) : text[i] \in {"l1", "l2"} /\ Depth(text, i - 1) = 1}
    IN  IF own = {} THEN <<>> ELSE LyricsList(text[Max(own)])

\* "lyric['page'] = page_num"
WithPage(lyrics, p) ==
    [i \in 1..Len(lyrics) |-> Fragment(lyrics[i].text, lyrics[i].section, p)]

\* The try block of _extract_lyrics_with_gpt4 (lines 314-392).
TryExtract(reply, p) ==
    IF reply \in {RAISES, NO_CONTENT} THEN [raised |-> TRUE, lyrics |-> <<>>]
    ELSE LET json_match == JsonMatch(reply)
         IN  IF json_match = NoMatch THEN [raised |-> FALSE, lyrics |-> <<>>]
             ELSE IF ~IsJsonObject(json_match) THEN [raised |-> TRUE, lyrics |-> <<>>]
             ELSE [raised |-> FALSE, lyrics |-> WithPage(GetLyrics(json_match), p)]

\* An except clause that lets the exception go on.
OnExtractErrorReraise(p) == [raised |-> TRUE, lyrics |-> <<>>]
\* "except Exception as e: print(...); return []" (lines 394-396)
OnExtractError(p) == [raised |-> FALSE, lyrics |-> <<>>]

\* _extract_lyrics_with_gpt4(img_base64, page_num)
extract_lyrics_with_gpt4(reply, p) ==
    LET t == TryExtract(reply, p)
    IN  IF t.raised THEN OnExtractError(p) ELSE t

\* What the vision request of a page of a whole document does.
PageReplies ==
    { RAISES, NO_CONTENT,
      <<"p">>,
      <<"{", "l1">>,
      <<"{", "p", "}">>,
      <<"p", "{", "l1", "}", "p">>,
      <<"{", "l2", "}">>,
      <<"{", "}">> }

Step(what, at) == [what |-> what, at |-> at]

\* A document of one or more pages.
InitExtract ==
    /\ epc = "page"
    /\ \E n \in 1..MaxPages : replies \in [1..n -> PageReplies]
    /\ page_num = 0
    /\ outstanding = 0
    /\ run_log = <<>>
    /\ cpc = "idle" /\ all_page_lyrics = <<>> /\ combined_lyrics = <<>> /\ organized = <<>>
    /\ IdleImage /\ IdleReformat /\ IdleSlides /\ IdleWeb /\ IdleDownloads

\* A document of one page, with any reply of at most MaxReplyLen tokens.
InitParse ==
    /\ epc = "page"
    /\ \E n \in 0..MaxReplyLen : \E reply \in [1..n -> ReplyTokens \ {"l2"}] :
          replies = <<reply>>
    /\ page_num = 0
    /\ outstanding = 0
    /\ run_log = <<>>
    /\ cpc = "idle" /\ all_page_lyrics = <<>> /\ combined_lyrics = <<>> /\ organized = <<>>
    /\ IdleImage /\ IdleReformat /\ IdleSlides /\ IdleWeb /\ IdleDownloads

\* A run that goes on to the next page as soon as the request is sent.
AfterRequestNoWait == "page"
\* The call of the vision request blocks: the run waits for its end.
AfterRequest == "extract wait"

\* "for page_num in range(pdf_document.page_count)": the page is rendered.
Rasterise ==
    /\ epc = "page"
    /\ page_num < Len(replies)
    /\ run_log' = Append(run_log, Step("rasterise", page_num + 1))
    /\ epc' = "fit"
    /\ UNCHANGED <<replies, page_num, outstanding,
                   imageVars, combineVars, reformatVars, slideVars, webVars, downloads>>

\* Lines 43-59: the image is brought under the ceiling.
FitToSize ==
    /\ epc = "fit"
    /\ run_log' = Append(run_log, Step("fit", page_num + 1))
    /\ epc' = "extract"
    /\ UNCHANGED <<replies, page_num, outstanding,
                   imageVars, combineVars, reformatVars, slideVars, webVars, downloads>>

\* "self.client.chat.completions.create(...)" of _extract_lyrics_with_gpt4: sent.
ExtractRequest ==
    /\ epc = "extract"
    /\ outstanding' = outstanding + 1
    /\ run_log' = Append(run_log, Step("extract request", page_num + 1))
    /\ epc' = AfterRequest
    /\ UNCHANGED <<replies, page_num,
                   imageVars, combineVars, reformatVars, slideVars, webVars, downloads>>

\* The request ends; the rest of _extract_lyrics_with_gpt4, and lines 67-71:
\* "if lyrics_on_page: all_page_lyrics.append(...)".  After the last page the
\* combiner is next.
ExtractReply ==
    /\ epc = "extract wait"
    /\ outstanding' = outstanding - 1
    /\ run_log' = Append(run_log, Step("extract reply", page_num + 1))
    /\ LET r == extract_lyrics_with_gpt4(replies[page_num + 1], page_num + 1)
           last_page == page_num + 1 = Len(replies)
       IN  IF r.raised
              THEN /\ epc' = "raised"
                   /\ UNCHANGED <<page_num, combineVars>>
              ELSE /\ all_page_lyrics' =
                        IF r.lyrics # <<>>
                           THEN Append(all_page_lyrics,
                                       [page |-> page_num + 1, lyrics |-> r.lyrics])
                           ELSE all_page_lyrics
                   /\ page_num' = page_num + 1
                   /\ epc' = IF last_page THEN "pass 1 done" ELSE "page"
                   /\ cpc' = IF last_page THEN "combine" ELSE cpc
                   /\ UNCHANGED <<combined_lyrics, organized>>
    /\ UNCHANGED <<replies, imageVars, reformatVars, slideVars, webVars, downloads>>

\* "self.lyrics_data = self._reformat_lyrics_poetically(self.lyrics_data)": called.
BeginReformat ==
    /\ epc = "pass 1 done"
    /\ cpc = "done"
    /\ reformat_input' = organized
    /\ epc' = IF organized = <<>> THEN "done" ELSE "lookup"
    /\ UNCHANGED <<rpc, reformat_index, reformatted_lyrics, reformat_trace,
                   replies, page_num, outstanding, run_log,
                   imageVars, combineVars, slideVars, webVars, downloads>>

\* The request of _get_poem_reference_structure for the next block: sent.
LookupRequest ==
    /\ epc = "lookup"
    /\ outstanding' = outstanding + 1
    /\ run_log' = Append(run_log, Step("lookup request", reformat_index + 1))
    /\ epc' = "lookup wait"
    /\ UNCHANGED <<replies, page_num,
                   imageVars, combineVars, reformatVars, slideVars, webVars, downloads>>

\* It ends, with a reference or without (its own except clause returns None).
LookupReply ==
    /\ epc = "lookup wait"
    /\ outstanding' = outstanding - 1
    /\ run_log' = Append(run_log, Step("lookup reply", reformat_index + 1))
    /\ epc' = "reformat"
    /\ UNCHANGED <<replies, page_num,
                   imageVars, combineVars, reformatVars, slideVars, webVars, downloads>>

\* The reformatting request for the block: sent.
ReformatRequest ==
    /\ epc = "reformat"
    /\ outstanding' = outstanding + 1
    /\ run_log' = Append(run_log, Step("reformat request", reformat_index + 1))
    /\ epc' = "reformat wait"
    /\ UNCHANGED <<replies, page_num,
                   imageVars, combineVars, reformatVars, slideVars, webVars, downloads>>

\* It ends; the block or its reformatted text is appended, and the loop turns.
ReformatReply ==
    /\ epc = "reformat wait"
    /\ outstanding' = outstanding - 1
    /\ run_log' = Append(run_log, Step("reformat reply", reformat_index + 1))
    /\ \E outcome \in {RAISES, <<"a", NL, "b">>} :
        LET r == ReformatOne(reformat_input[reformat_index + 1], "unknown", outcome)
        IN  /\ reformatted_lyrics' = reformatted_lyrics \o r.appended
            /\ reformat_trace' = Append(reformat_trace, outcome)
            /\ reformat_index' = reformat_index + 1
            /\ epc' = IF r.raised THEN "raised"
                      ELSE IF reformat_index + 1 = Len(reformat_input) THEN "done"
                      ELSE "lookup"
    /\ UNCHANGED <<rpc, reformat_input, replies, page_num,
                   imageVars, combineVars, slideVars, webVars, downloads>>

NextExtract ==
    \/ Rasterise \/ FitToSize \/ ExtractRequest \/ ExtractReply
    \/ Combine \/ Organize
    \/ BeginReformat \/ LookupRequest \/ LookupReply \/ ReformatRequest \/ ReformatReply

SpecExtract == InitExtract /\ [][NextExtract]_vars

SpecParse == InitParse /\ [][NextExtract]_vars

\* ---- C16

\* The extraction of a page fails softly: the request raises (or answers without
\* content), the reply holds no brace-delimited stretch, or the stretch does not
\* parse.
SoftFailure(reply) ==
    \/ reply \in {RAISES, NO_CONTENT}
    \/ JsonMatch(reply) = NoMatch
    \/ ~IsJsonObject(JsonMatch(reply))

\* C16: a page whose extraction fails softly gives no fragments and no
\* exception, the run goes on with the remaining pages, and the fragments of the
\* other pages reach the combiner in page order, each with its own page number,
\* counted from one.
C16_SoftFailureSkipsPage ==
    /\ epc # "raised"
    /\ \A i \in 1..Len(all_page_lyrics) :
          /\ all_page_lyrics[i].page \in 1..page_num
          /\ ~SoftFailure(replies[all_page_lyrics[i].page])
          /\ i > 1 => all_page_lyrics[i - 1].page < all_page_lyrics[i].page
          /\ \A j \in 1..Len(all_page_lyrics[i].lyrics) :
                all_page_lyrics[i].lyrics[j].page = all_page_lyrics[i].page
    /\ \A k \in 1..page_num :
          (~SoftFailure(replies[k]) /\ GetLyrics(JsonMatch(replies[k])) # <<>>) =>
              \E i \in 1..Len(all_page_lyrics) :
                  /\ all_page_lyrics[i].page = k
                  /\ [j \in 1..Len(all_page_lyrics[i].lyrics) |->
                         [text |-> all_page_lyrics[i].lyrics[j].text,
                          section |-> all_page_lyrics[i].lyrics[j].section]]
                        = GetLyrics(JsonMatch(replies[k]))
    /\ epc \notin {"page", "fit", "extract", "extract wait"} => page_num = Len(replies)

\* The request of the first page raised and the fragments of the second page
\* reached the combiner with page number 2.
C16_Witness ==
    /\ Len(replies) >= 2
    /\ page_num = Len(replies)
    /\ replies[1] = RAISES
    /\ Len(all_page_lyrics) >= 1
    /\ all_page_lyrics[1].page = 2
    /\ all_page_lyrics[1].lyrics[1].page = 2
    /\ cpc = "done"

\* ---- C17

\* The well-formed objects of a reply, by the places of their braces.
ObjectsIn(reply) ==
    {ij \in (1..Len(reply)) \X (1..Len(reply)) :
        ij[1] < ij[2] /\ IsJsonObject(SubSeq(reply, ij[1], ij[2]))}

\* The first of them.
FirstObject(reply) ==
    LET ij == CHOOSE x \in ObjectsIn(reply) : \A y \in ObjectsIn(reply) : x[1] <= y[1]
    IN  SubSeq(reply, ij[1], ij[2])

\* C17: for every reply that contains a well-formed object, whatever surrounds
\* it, the extractor returns the lyrics list of the first object of the reply.
C17_FirstObjectParsed ==
    (Len(replies) = 1 /\ page_num = 1 /\ ObjectsIn(replies[1]) # {}) =>
        LET expected == WithPage(GetLyrics(FirstObject(replies[1])), 1)
        IN  all_page_lyrics =
                IF expected = <<>> THEN <<>> ELSE <<[page |-> 1, lyrics |-> expected]>>

\* ---- C18

\* Per non-blank line of the blocks, in block order: the section and the
\* line_number of its block.
Origins(data) ==
    Flatten([i \in 1..Len(data) |->
                LET lines == SelectSeq(LinesBetweenBreaks(data[i].text), NotBlank)
                IN  [j \in 1..Len(lines) |->
                        [section |-> data[i].section,
                         line_number |-> data[i].line_number]]])

\* C18: whatever max_lines_per_slide is (max_lines, any of MaxLinesValues), every
\* segment holds exactly one entry, there is one segment per non-blank line of
\* the blocks, a number in which the parameter has no part, and the entry
\* carries the section and the line_number of the block its line came from.
C18_OneLinePerSegment ==
    (spc = "segmented" /\ max_lines \in MaxLinesValues) =>
        /\ LET origins == Origins(lyrics_data)
           IN  /\ Len(segments) = Len(origins)
               /\ \A k \in 1..Len(segments) :
                     /\ Len(segments[k]) = 1
                     /\ segments[k][1].section = origins[k].section
                     /\ segments[k][1].line_number = origins[k].line_number

\* Three lines asked for per slide, and three segments of one line each, two of
\* them from the same block.
C18_Witness ==
    /\ spc = "segmented"
    /\ max_lines = 3
    /\ Len(segments) = 3
    /\ \A k \in 1..3 : Len(segments[k]) = 1
    /\ segments[1][1].line_number = segments[2][1].line_number
    /\ segments[3][1].line_number # segments[2][1].line_number

\* ---- C19

PageSteps == <<"rasterise", "fit", "extract request", "extract reply">>
BlockSteps == <<"lookup request", "lookup reply", "reformat request", "reformat reply">>

\* The steps of the log that are work on a page.
PageWork == {i \in 1..Len(run_log) : run_log[i].what \in {PageSteps[k] : k \in 1..4}}

\* The model calls that have ended before step i.
EndedBefore(i) ==
    Cardinality({j \in 1..(i - 1) :
        run_log[j].what \in {"extract reply", "lookup reply", "reformat reply"}})

\* C19: pages are handled one after another in ascending order, at most one
\* model request is outstanding, and when work on page k+1 begins all work of
\* page k, its two model calls included, has ended.
C19_TwoCallsPerPage ==
    /\ outstanding <= 1
    /\ \A i, j \in PageWork : i < j => run_log[i].at <= run_log[j].at
    /\ \A i \in PageWork :
          run_log[i].what = "rasterise" => EndedBefore(i) = 2 * (run_log[i].at - 1)

\* C19, amended: at most one model request is outstanding; the first pass takes
\* the pages in ascending order and ends all work of page k (rasterise, fit to
\* size, the one extraction call) before any work of page k+1; the second pass
\* begins after the last page and makes the two calls of each block (reference
\* lookup, reformatting) block after block, each call ended before the next.
C19_PassAfterPass ==
    /\ outstanding \in {0, 1}
    /\ \A i \in 1..Len(run_log) :
          LET first == 4 * Len(replies)
          IN  IF i <= first
                 THEN run_log[i] = Step(PageSteps[((i - 1) % 4) + 1], ((i - 1) \div 4) + 1)
                 ELSE run_log[i] = Step(BlockSteps[((i - first - 1) % 4) + 1],
                                        ((i - first - 1) \div 4) + 1)
    /\ outstanding = 1 <=>
          (run_log # <<>> /\ run_log[Len(run_log)].what
                                \in {"extract request", "lookup request", "reformat request"})

\* A run of two pages and two blocks has ended.
C19_Witness ==
    /\ epc = "done"
    /\ Len(replies) = 2
    /\ Len(reformat_input) = 2
    /\ Len(run_log) = 16
    /\ run_log[9].what = "lookup request"

(***************************************************************************)
(* Concurrent GET /download/<name> requests for one deck: download_file,   *)
(* step by step                                                            *)
(***************************************************************************)

\* Bound: the requests in flight.
NumRequests == 3

DownloadRequests == 1..NumRequests

\* The deck all the requests ask for.
TheDeck == DeckName(1)

\* os.remove that passes over a file that is gone.
RemoveIfThere(name, outs) == [raised |-> FALSE, outputs |-> outs \ {name}]
\* os.remove(path): raises when the file is not there.
Remove(name, outs) ==
    IF name \in outs THEN [raised |-> FALSE, outputs |-> outs \ {name}]
    ELSE [raised |-> TRUE, outputs |-> outs]

At(pc) == [pc |-> pc, status |-> 0]
Answered(status) == [pc |-> "answered", status |-> status]

\* The deck is in the output folder, with or without its lyrics file, and every
\* request is about to be handled.
InitDownloads ==
    /\ outputs \in {{TheDeck}, {TheDeck, LyricsPathOf(TheDeck)}}
    /\ downloads = [r \in DownloadRequests |-> At("exists")]
    /\ uploads = {} /\ now = 1 /\ last = [op |-> "none"] /\ downloaded = {}
    /\ IdleImage /\ IdleCombine /\ IdleReformat /\ IdleSlides /\ IdleExtract

\* "if not os.path.exists(file_path): return 'File not found', 404"
CheckExists(r) ==
    /\ downloads[r].pc = "exists"
    /\ downloads' = [downloads EXCEPT ![r] =
                        IF TheDeck \in outputs THEN At("read") ELSE Answered(404)]
    /\ UNCHANGED <<uploads, outputs, now, last, downloaded,
                   imageVars, combineVars, reformatVars, slideVars, extractVars>>

\* "with open(file_path, 'rb') as f: file_data = f.read()": raises when the file
\* is gone, and may raise on its own; the except clause answers 500.
ReadFile(r) ==
    /\ downloads[r].pc = "read"
    /\ \/ /\ TheDeck \in outputs
          /\ downloads' = [downloads EXCEPT ![r] = At("remove")]
       \/ downloads' = [downloads EXCEPT ![r] = Answered(500)]
    /\ UNCHANGED <<uploads, outputs, now, last, downloaded,
                   imageVars, combineVars, reformatVars, slideVars, extractVars>>

\* "os.remove(file_path)"
RemoveDeck(r) ==
    /\ downloads[r].pc = "remove"
    /\ LET rm == Remove(TheDeck, outputs)
       IN  /\ outputs' = rm.outputs
           /\ downloads' = [downloads EXCEPT ![r] =
                               IF rm.raised THEN Answered(500) ELSE At("lyrics exists")]
    /\ UNCHANGED <<uploads, now, last, downloaded,
                   imageVars, combineVars, reformatVars, slideVars, extractVars>>

\* "if os.path.exists(lyrics_path):", else "return response"
CheckLyrics(r) ==
    /\ downloads[r].pc = "lyrics exists"
    /\ downloads' = [downloads EXCEPT ![r] =
                        IF LyricsPathOf(TheDeck) \in outputs
                           THEN At("remove lyrics") ELSE Answered(200)]
    /\ UNCHANGED <<uploads, outputs, now, last, downloaded,
                   imageVars, combineVars, reformatVars, slideVars, extractVars>>

\* "os.remove(lyrics_path)" and "return response"
RemoveLyrics(r) ==
    /\ downloads[r].pc = "remove lyrics"
    /\ LET rm == Remove(LyricsPathOf(TheDeck), outputs)
       IN  /\ outputs' = rm.outputs
           /\ downloads' = [downloads EXCEPT ![r] =
                               IF rm.raised THEN Answered(500) ELSE Answered(200)]
    /\ UNCHANGED <<uploads, now, last, downloaded,
                   imageVars, combineVars, reformatVars, slideVars, extractVars>>

NextDownloads ==
    \E r \in DownloadRequests :
        \/ CheckExists(r) \/ ReadFile(r) \/ RemoveDeck(r) \/ CheckLyrics(r) \/ RemoveLyrics(r)

SpecDownloads == InitDownloads /\ [][NextDownloads]_vars

\* ---- C20

\* C20: under every interleaving of the steps of concurrent downloads of one
\* existing deck, at most one request answers 200, and every other request that
\* has answered answers 404 or 500.
C20_AtMostOneServed ==
    /\ Cardinality({r \in DownloadRequests : downloads[r].status = 200}) <= 1
    /\ \A r \in DownloadRequests :
          downloads[r].pc = "answered" => downloads[r].status \in {200, 404, 500}
    /\ \A r \in DownloadRequests :
          downloads[r].status = 200 =>
              TheDeck \notin outputs /\ LyricsPathOf(TheDeck) \notin outputs

\* Two requests both found the deck and read it; one removed it and answered
\* 200, the other failed to remove it and answered 500.
C20_Witness ==
    \E r1, r2 \in DownloadRequests :
        /\ r1 # r2
        /\ downloads[r1] = Answered(200)
        /\ downloads[r2] = Answered(500)
        /\ TheDeck \notin outputs

\* ---- C21

\* A POST /process was just handled: its scenario, its second, its answer.
ProcessHandled == last'.op = "process" /\ now' = now

LyricsExtracted ==
    /\ epc = "done"
    /\ IF reformatted_lyrics = <<>>
          THEN /\ epc' = "no lyrics"
               /\ UNCHANGED slideVars
          ELSE /\ epc' = "returned"
               /\ lyrics_data' = reformatted_lyrics
               /\ spc' = "ready"
               /\ UNCHANGED <<segments, max_lines, text_file, prs, num_slides>>
    /\ UNCHANGED <<replies, page_num, outstanding, run_log,
                   imageVars, combineVars, reformatVars, webVars, downloads>>

NextPipeline == NextExtract \/ LyricsExtracted \/ NextSlides

SpecPipeline == InitExtract /\ [][NextPipeline]_vars

\* ---- C22

\* The entries of the slide segments, in order.
SegmentEntries == Flatten(segments)

\* C22: in a full run no block of the combiner has a page field, every block
\* the reformatter returns has page 1 or none, and every entry of every slide
\* segment has page 1, whatever the pages the fragments were extracted from.
C22_PageAlwaysOne ==
    /\ \A i \in 1..Len(combined_lyrics) : "page" \notin DOMAIN combined_lyrics[i]
    /\ \A i \in 1..Len(reformatted_lyrics) : PageOf(reformatted_lyrics[i]) = 1
    /\ \A i \in 1..Len(SegmentEntries) : SegmentEntries[i].page = 1

\* The only lyrics of the run were extracted from page 2, the reformatting
\* request failed so the combiner's block was kept, and the segment entry of
\* that line says page 1.
C22_Witness ==
    /\ spc = "segmented"
    /\ Len(all_page_lyrics) = 1
    /\ all_page_lyrics[1].page = 2
    /\ all_page_lyrics[1].lyrics[1].page = 2
    /\ reformat_trace = <<RAISES>>
    /\ Len(segments) = 1
    /\ segments[1][1].text = all_page_lyrics[1].lyrics[1].text
    /\ segments[1][1].page = 1

====
